---- MODULE Spec2Model ----
(***************************************************************************)
(* The one-shot feed-list editor _update_feeds.py as a state machine.      *)
(* Texts are character strings; positions are 0-based as in Python, so the  *)
(* Python slice s[a:b] is SubSeq(s, a + 1, b).                               *)
(***************************************************************************)
EXTENDS Integers, Sequences, FiniteSets, TLC

VARIABLES
    disk,              \* content of the file at filepath
    pc,                \* pc[p]: the line instance p is about to execute
    content,           \* content[p]: the script's variable content
    src,               \* src[p]: history variable, the text f.read() returned
    start_idx,         \* start_idx[p]
    end_search_start,  \* end_search_start[p]
    closing,           \* closing[p]
    end_idx,           \* end_idx[p]
    old_section,       \* old_section[p]
    out,               \* out[p]: what instance p has printed, one entry per print
    written,           \* written[p]: characters of content[p] already on disk
    runs,              \* number of re-runs of the script so far
    prev,              \* history variable: how the previous invocation ended
    file0              \* history variable: the file before any instance started

vars == <<disk, pc, content, src, start_idx, end_search_start, closing,
          end_idx, old_section, out, written, runs, prev, file0>>

\* ---------------------------------------------------------------- bounds

\* Largest number of fragments an initial file is concatenated from.
MaxParts == 4

\* Number of sequential re-runs of the script after the first run.
MaxRuns == 2

\* Characters one write call of the operating system transfers.
WriteBlock == 1024

\* -------------------------------------------------------------- literals

old_start == "  // Human Side of Tech & Leadership"

old_end_marker == "url: \"https://lilianweng.github.io/index.xml\","

closing_delim == "},"

\* A faulty replacement block: the comment line that is the start marker and
\* most entries are left out.
new_section_unmarked ==
    "  // Cloud & Infrastructure Engineering\n" \o
    "  {\n" \o
    "    name: \"Cloudflare Blog\",\n" \o
    "    url: \"https://blog.cloudflare.com/rss/\",\n" \o
    "  },\n" \o
    "  {\n" \o
    "    name: \"Lil'Log (Lilian Weng)\",\n" \o
    "    url: \"https://lilianweng.github.io/index.xml\",\n" \o
    "  },"

new_section ==
    "  // Cloud & Infrastructure Engineering\n" \o
    "  {\n" \o
    "    name: \"Cloudflare Blog\",\n" \o
    "    url: \"https://blog.cloudflare.com/rss/\",\n" \o
    "  },\n" \o
    "  // Human Side of Tech & Leadership\n" \o
    "  {\n" \o
    "    name: \"The Engineering Manager\",\n" \o
    "    url: \"https://theengineeringmanager.com/feed/\",\n" \o
    "  },\n" \o
    "  { name: \"Rands in Repose\", url: \"https://randsinrepose.com/feed/\" },\n" \o
    "  {\n" \o
    "    name: \"Irrational Exuberance (Will Larson)\",\n" \o
    "    url: \"https://lethain.com/feeds.xml\",\n" \o
    "  },\n" \o
    "  { name: \"LeadDev\", url: \"https://leaddev.com/feed\" },\n" \o
    "  { name: \"StaffEng\", url: \"https://staffeng.com/rss\" },\n" \o
    "  {\n" \o
    "    name: \"Charity Majors (CTO Craft)\",\n" \o
    "    url: \"https://charity.wtf/feed/\",\n" \o
    "  },\n" \o
    "  // Substack & Independent - Architecture & Leadership\n" \o
    "  {\n" \o
    "    name: \"The Pragmatic Engineer\",\n" \o
    "    url: \"https://newsletter.pragmaticengineer.com/feed\",\n" \o
    "  },\n" \o
    "  { name: \"ByteByteGo System Design\", url: \"https://blog.bytebytego.com/feed\" },\n" \o
    "  { name: \"Refactoring (Luca Rossi)\", url: \"https://refactoring.fm/feed\" },\n" \o
    "  {\n" \o
    "    name: \"Tidy First? (Kent Beck)\",\n" \o
    "    url: \"https://tidyfirst.substack.com/feed\",\n" \o
    "  },\n" \o
    "  {\n" \o
    "    name: \"The Beautiful Mess (John Cutler)\",\n" \o
    "    url: \"https://cutlefish.substack.com/feed\",\n" \o
    "  },\n" \o
    "  { name: \"Martin Fowler\", url: \"https://martinfowler.com/feed.atom\" },\n" \o
    "  { name: \"LangChain Blog\", url: \"https://blog.langchain.dev/rss/\" },\n" \o
    "  // System Design & Architecture\n" \o
    "  {\n" \o
    "    name: \"High Scalability\",\n" \o
    "    url: \"https://highscalability.com/feed/\",\n" \o
    "  },\n" \o
    "  {\n" \o
    "    name: \"InfoQ\",\n" \o
    "    url: \"https://feed.infoq.com/\",\n" \o
    "  },\n" \o
    "  {\n" \o
    "    name: \"The New Stack\",\n" \o
    "    url: \"https://thenewstack.io/feed/\",\n" \o
    "  },\n" \o
    "  {\n" \o
    "    name: \"Architecture Notes\",\n" \o
    "    url: \"https://architecturenotes.co/rss/\",\n" \o
    "  },\n" \o
    "  // AI Agents, LLMs & Research\n" \o
    "  { name: \"Google Research\", url: \"https://research.google/blog/rss\" },\n" \o
    "  { name: \"Hugging Face\", url: \"https://huggingface.co/blog/feed.xml\" },\n" \o
    "  {\n" \o
    "    name: \"BAIR (Berkeley AI)\",\n" \o
    "    url: \"https://bair.berkeley.edu/blog/feed.xml\",\n" \o
    "  },\n" \o
    "  {\n" \o
    "    name: \"Lil'Log (Lilian Weng)\",\n" \o
    "    url: \"https://lilianweng.github.io/index.xml\",\n" \o
    "  },\n" \o
    "  {\n" \o
    "    name: \"Anthropic Research\",\n" \o
    "    url: \"https://www.anthropic.com/research/rss.xml\",\n" \o
    "  },\n" \o
    "  {\n" \o
    "    name: \"DeepMind Blog\",\n" \o
    "    url: \"https://deepmind.google/blog/rss.xml\",\n" \o
    "  },\n" \o
    "  {\n" \o
    "    name: \"Meta AI Blog\",\n" \o
    "    url: \"https://ai.meta.com/blog/rss/\",\n" \o
    "  },\n" \o
    "  {\n" \o
    "    name: \"AI Snake Oil\",\n" \o
    "    url: \"https://www.aisnakeoil.com/feed\",\n" \o
    "  },\n" \o
    "  {\n" \o
    "    name: \"Simon Willison's Weblog\",\n" \o
    "    url: \"https://simonwillison.net/atom/everything/\",\n" \o
    "  },"

BannerOld == "=== OLD SECTION ==="

BannerEnd == "=== END OLD ==="

DoneMsg == "Done! Feeds updated successfully."

\* str.index raises ValueError when the needle is absent: modelled as this result.
NotFound == -1

\* A name the script has not bound yet.
Unbound == -2

Instances == {1, 2}

\* ------------------------------------------------------- string helpers

Min(S) == CHOOSE i \in S : \A j \in S : i <= j

\* Python s[a:b] for 0 <= a, b.
Slice(s, a, b) == SubSeq(s, a + 1, IF b > Len(s) THEN Len(s) ELSE b)

\* A faulty index: the from argument is dropped, the whole text is searched.
index_from_zero(s, sub, from) ==
    LET n == Len(sub)
        cands == {i \in 0 .. (Len(s) - n) : SubSeq(s, i + 1, i + n) = sub}
    IN  IF cands = {} THEN NotFound ELSE Min(cands)

\* A faulty index: the highest position >= from (rindex) instead of the lowest.
index_last(s, sub, from) ==
    LET n == Len(sub)
        cands == {i \in from .. (Len(s) - n) : SubSeq(s, i + 1, i + n) = sub}
    IN  IF cands = {} THEN NotFound ELSE CHOOSE i \in cands : \A j \in cands : j <= i

\* Python s.index(sub, from): the lowest position >= from where sub occurs.
\* (The one-character comparison only spares building the longer slice.)
index(s, sub, from) ==
    LET n == Len(sub)
        c1 == SubSeq(sub, 1, 1)
        cands == {i \in from .. (Len(s) - n) :
                    /\ SubSeq(s, i + 1, i + 1) = c1
                    /\ SubSeq(s, i + 1, i + n) = sub}
    IN  IF cands = {} THEN NotFound ELSE Min(cands)

\* s with blk stored at offset off, as a write at that file offset does; a gap
\* between the end of s and off reads back as NUL bytes, written Hole here.
Hole == "?"

RECURSIVE Holes(_)
Holes(n) ==
    IF n <= 0 THEN ""
    ELSE IF n = 1 THEN Hole
    ELSE Holes(n \div 2) \o Holes(n - (n \div 2))

\* A faulty write: mode "a", every block lands at the end of the file.
WriteAppend(s, off, blk) == s \o blk

WriteAt(s, off, blk) ==
    LET pre  == IF Len(s) >= off THEN Slice(s, 0, off)
                ELSE s \o Holes(off - Len(s))
        post == IF Len(s) > off + Len(blk) THEN Slice(s, off + Len(blk), Len(s))
                ELSE ""
    IN  pre \o blk \o post

\* A faulty end_idx: the region stops before the closing delimiter.
EndIdxAtClosing(c) == c

\* end_idx = closing + len("},")
EndIdx(c) == c + Len(closing_delim)

\* A faulty old_section: the slice starts after the start marker.
OldSectionShort(c, s, e) == Slice(c, s + Len(old_start), e)

\* old_section = content[start_idx:end_idx]
OldSection(c, s, e) == Slice(c, s, e)

\* A faulty splice: the suffix is taken from closing instead of end_idx, so
\* the old closing delimiter survives.
SplicedFromClosing(c, s, e) ==
    Slice(c, 0, s) \o new_section \o Slice(c, e - Len(closing_delim), Len(c))

\* content[:start_idx] + new_section + content[end_idx:]
Spliced(c, s, e) == Slice(c, 0, s) \o new_section \o Slice(c, e, Len(c))

\* ------------------------------------------------------- initial files

\* The three literals the script searches for, and a line that begins like the
\* start marker and holds a brace that no comma follows.
Fragments == {old_start, old_end_marker, closing_delim,
              "  // Human Side of Tech }\n"}

RECURSIVE Join(_)
Join(parts) == IF parts = <<>> THEN "" ELSE Head(parts) \o Join(Tail(parts))

Texts(n) == {Join(ps) : ps \in UNION {[1 .. k -> Fragments] : k \in 0 .. n}}

\* No invocation has ended yet.
NoRun == [pc |-> "none", src |-> "", start_idx |-> Unbound, end_idx |-> Unbound,
          disk |-> ""]

Fresh(v) == [p \in Instances |-> v]

InitWith(files) ==
    /\ disk \in files
    /\ file0 = disk
    /\ pc = Fresh("read")
    /\ content = Fresh("")
    /\ src = Fresh("")
    /\ start_idx = Fresh(Unbound)
    /\ end_search_start = Fresh(Unbound)
    /\ closing = Fresh(Unbound)
    /\ end_idx = Fresh(Unbound)
    /\ old_section = Fresh("")
    /\ out = Fresh(<<>>)
    /\ written = Fresh(0)
    /\ runs = 0
    /\ prev = NoRun

Init == InitWith(Texts(MaxParts))

InitConc == InitWith(Texts(MaxParts))

\* ------------------------------------------------------------- actions

Goto(p, l) == pc' = [pc EXCEPT ![p] = l]

\* with open(filepath, "r") as f: content = f.read()
Read(p) ==
    /\ pc[p] = "read"
    /\ content' = [content EXCEPT ![p] = disk]
    /\ src' = [src EXCEPT ![p] = disk]
    /\ Goto(p, "find_start")
    /\ UNCHANGED <<disk, start_idx, end_search_start, closing, end_idx,
                   old_section, out, written, runs, prev, file0>>

\* open(filepath, "r") raises OSError
ReadFail(p) ==
    /\ pc[p] = "read"
    /\ Goto(p, "read_error")
    /\ UNCHANGED <<disk, content, src, start_idx, end_search_start, closing,
                   end_idx, old_section, out, written, runs, prev, file0>>

\* start_idx = content.index(old_start)
FindStart(p) ==
    /\ pc[p] = "find_start"
    /\ LET i == index(content[p], old_start, 0)
       IN  IF i = NotFound
           THEN Goto(p, "marker_error") /\ UNCHANGED start_idx
           ELSE /\ start_idx' = [start_idx EXCEPT ![p] = i]
                /\ Goto(p, "find_end")
    /\ UNCHANGED <<disk, content, src, end_search_start, closing, end_idx,
                   old_section, out, written, runs, prev, file0>>

\* A faulty lookup: an absent end marker is not an error, the search for the
\* closing delimiter goes on from the start marker.
FindEndNoRaise(p) ==
    /\ pc[p] = "find_end"
    /\ LET i == index(content[p], old_end_marker, start_idx[p])
       IN  end_search_start' = [end_search_start EXCEPT
                                  ![p] = IF i = NotFound THEN start_idx[p] ELSE i]
    /\ Goto(p, "find_closing")
    /\ UNCHANGED <<disk, content, src, start_idx, closing, end_idx,
                   old_section, out, written, runs, prev, file0>>

\* end_search_start = content.index(old_end_marker, start_idx)
FindEnd(p) ==
    /\ pc[p] = "find_end"
    /\ LET i == index(content[p], old_end_marker, start_idx[p])
       IN  IF i = NotFound
           THEN Goto(p, "marker_error") /\ UNCHANGED end_search_start
           ELSE /\ end_search_start' = [end_search_start EXCEPT ![p] = i]
                /\ Goto(p, "find_closing")
    /\ UNCHANGED <<disk, content, src, start_idx, closing, end_idx,
                   old_section, out, written, runs, prev, file0>>

\* closing = content.index("},", end_search_start); end_idx = closing + len("},")
FindClosing(p) ==
    /\ pc[p] = "find_closing"
    /\ LET i == index(content[p], closing_delim, end_search_start[p])
       IN  IF i = NotFound
           THEN Goto(p, "marker_error") /\ UNCHANGED <<closing, end_idx>>
           ELSE /\ closing' = [closing EXCEPT ![p] = i]
                /\ end_idx' = [end_idx EXCEPT ![p] = EndIdx(i)]
                /\ Goto(p, "print_old")
    /\ UNCHANGED <<disk, content, src, start_idx, end_search_start,
                   old_section, out, written, runs, prev, file0>>

\* old_section = content[start_idx:end_idx] and the three prints
PrintOld(p) ==
    /\ pc[p] = "print_old"
    /\ LET o == OldSection(content[p], start_idx[p], end_idx[p])
       IN  /\ old_section' = [old_section EXCEPT ![p] = o]
           /\ out' = [out EXCEPT ![p] = @ \o <<BannerOld, o, BannerEnd>>]
    /\ Goto(p, "splice")
    /\ UNCHANGED <<disk, content, src, start_idx, end_search_start, closing,
                   end_idx, written, runs, prev, file0>>

\* content = content[:start_idx] + new_section + content[end_idx:]
Splice(p) ==
    /\ pc[p] = "splice"
    /\ content' = [content EXCEPT ![p] = Spliced(@, start_idx[p], end_idx[p])]
    /\ Goto(p, "open_w")
    /\ UNCHANGED <<disk, src, start_idx, end_search_start, closing, end_idx,
                   old_section, out, written, runs, prev, file0>>

\* A faulty open: mode "r+" instead of "w", the old content is not truncated.
OpenNoTruncate(p) ==
    /\ pc[p] = "open_w"
    /\ written' = [written EXCEPT ![p] = 0]
    /\ Goto(p, "write")
    /\ UNCHANGED <<disk, content, src, start_idx, end_search_start, closing,
                   end_idx, old_section, out, runs, prev, file0>>

\* open(filepath, "w") truncates the file
OpenWrite(p) ==
    /\ pc[p] = "open_w"
    /\ disk' = ""
    /\ written' = [written EXCEPT ![p] = 0]
    /\ Goto(p, "write")
    /\ UNCHANGED <<content, src, start_idx, end_search_start, closing, end_idx,
                   old_section, out, runs, prev, file0>>

\* open(filepath, "w") raises OSError: nothing was truncated
OpenWriteFail(p) ==
    /\ pc[p] = "open_w"
    /\ Goto(p, "write_error")
    /\ UNCHANGED <<disk, content, src, start_idx, end_search_start, closing,
                   end_idx, old_section, out, written, runs, prev, file0>>

\* f.write(content), flushed at the end of the with block: the next block of
\* the text reaches the file at this instance's file offset
WriteChunk(p) ==
    /\ pc[p] = "write"
    /\ written[p] < Len(content[p])
    /\ LET n == IF Len(content[p]) - written[p] < WriteBlock
                THEN Len(content[p]) - written[p] ELSE WriteBlock
           blk == Slice(content[p], written[p], written[p] + n)
       IN  /\ disk' = WriteAt(disk, written[p], blk)
           /\ written' = [written EXCEPT ![p] = @ + n]
    /\ UNCHANGED <<pc, content, src, start_idx, end_search_start, closing,
                   end_idx, old_section, out, runs, prev, file0>>

\* the write is interrupted (OSError) with part of the text still unwritten
WriteFail(p) ==
    /\ pc[p] = "write"
    /\ written[p] < Len(content[p])
    /\ Goto(p, "write_error")
    /\ UNCHANGED <<disk, content, src, start_idx, end_search_start, closing,
                   end_idx, old_section, out, written, runs, prev, file0>>

\* A faulty end of the write: the script goes on to the completion message
\* whatever part of the text has reached the file.
CloseEarly(p) ==
    /\ pc[p] = "write"
    /\ Goto(p, "report")
    /\ UNCHANGED <<disk, content, src, start_idx, end_search_start, closing,
                   end_idx, old_section, out, written, runs, prev, file0>>

\* the with block ends: everything is written and the file is closed
Close(p) ==
    /\ pc[p] = "write"
    /\ written[p] = Len(content[p])
    /\ Goto(p, "report")
    /\ UNCHANGED <<disk, content, src, start_idx, end_search_start, closing,
                   end_idx, old_section, out, written, runs, prev, file0>>

\* print("Done! Feeds updated successfully.")
Report(p) ==
    /\ pc[p] = "report"
    /\ out' = [out EXCEPT ![p] = Append(@, DoneMsg)]
    /\ Goto(p, "done")
    /\ UNCHANGED <<disk, content, src, start_idx, end_search_start, closing,
                   end_idx, old_section, written, runs, prev, file0>>

\* The operator invokes the script again after a successful invocation: a new
\* process, nothing carried over but the file.
Rerun ==
    /\ pc[1] = "done"
    /\ runs < MaxRuns
    /\ runs' = runs + 1
    /\ prev' = [pc |-> pc[1], src |-> src[1], start_idx |-> start_idx[1],
                 end_idx |-> end_idx[1], disk |-> disk]
    /\ pc' = [pc EXCEPT ![1] = "read"]
    /\ content' = [content EXCEPT ![1] = ""]
    /\ src' = [src EXCEPT ![1] = ""]
    /\ start_idx' = [start_idx EXCEPT ![1] = Unbound]
    /\ end_search_start' = [end_search_start EXCEPT ![1] = Unbound]
    /\ closing' = [closing EXCEPT ![1] = Unbound]
    /\ end_idx' = [end_idx EXCEPT ![1] = Unbound]
    /\ old_section' = [old_section EXCEPT ![1] = ""]
    /\ out' = [out EXCEPT ![1] = <<>>]
    /\ written' = [written EXCEPT ![1] = 0]
    /\ UNCHANGED <<disk, file0>>

Step(p) ==
    \/ Read(p)
    \/ ReadFail(p)
    \/ FindStart(p)
    \/ FindEnd(p)
    \/ FindClosing(p)
    \/ PrintOld(p)
    \/ Splice(p)
    \/ OpenWrite(p)
    \/ OpenWriteFail(p)
    \/ WriteChunk(p)
    \/ WriteFail(p)
    \/ Close(p)
    \/ Report(p)

\* One instance, run again and again by the operator.
Next == Step(1) \/ Rerun

Spec == Init /\ [][Next]_vars

\* The same, the running process not stopping between two of its lines.
FairSpec == Spec /\ WF_vars(Step(1))

\* Two instances started against the same file.
NextConc == \E p \in Instances : Step(p)

SpecConc == InitConc /\ [][NextConc]_vars

\* ---------------------------------------------------------------- claims

\* sub occurs in s at 0-based position i.
Occurs(s, sub, i) ==
    /\ i >= 0
    /\ i + Len(sub) <= Len(s)
    /\ SubSeq(s, i + 1, i + 1) = SubSeq(sub, 1, 1)
    /\ SubSeq(s, i + 1, i + Len(sub)) = sub

\* The lines at which all three lookups have succeeded.
AfterLookup == {"print_old", "splice", "open_w", "write", "report", "done"}

\* The lines after the old section was printed.
AfterPrint == {"splice", "open_w", "write", "report", "done"}

\* The lines after the splice.
AfterSplice == {"open_w", "write", "report", "done"}

\* Instance p got past the lookups (a write_error is only raised after them).
Located(p) == pc[p] \in AfterLookup \cup {"write_error"}

\* C4: the region starts at the first start marker of the text read, the end
\* marker used is the first one at or after that position, the closing
\* delimiter used is the first one at or after the end marker's position, and
\* the region ends right after that delimiter. Stated where the three lookups
\* have just been made (nothing assigns the positions afterwards).
C4_RegionIsFirstMatches ==
    \A p \in Instances : pc[p] = "print_old" =>
        /\ Occurs(src[p], old_start, start_idx[p])
        /\ \A j \in 0 .. (start_idx[p] - 1) : ~Occurs(src[p], old_start, j)
        /\ end_search_start[p] >= start_idx[p]
        /\ Occurs(src[p], old_end_marker, end_search_start[p])
        /\ \A j \in start_idx[p] .. (end_search_start[p] - 1) :
              ~Occurs(src[p], old_end_marker, j)
        /\ closing[p] >= end_search_start[p]
        /\ Occurs(src[p], closing_delim, closing[p])
        /\ \A j \in end_search_start[p] .. (closing[p] - 1) :
              ~Occurs(src[p], closing_delim, j)
        /\ end_idx[p] = closing[p] + 2

\* C4 witness: a located region in a text that has an end marker before the
\* start marker and a closing delimiter between the start marker and the end
\* marker used.
C4_Witness ==
    /\ pc[1] = "print_old"
    /\ \E j \in 0 .. (start_idx[1] - 1) : Occurs(src[1], old_end_marker, j)
    /\ \E j \in start_idx[1] .. (end_search_start[1] - 1) :
          Occurs(src[1], closing_delim, j)

\* C9: the positions are ordered 0 <= start_idx < end_search_start < closing,
\* end_idx = closing + 2 <= len(content); the markers found do not overlap;
\* the region begins with the start marker, contains the end marker and ends
\* with the closing delimiter.
C9_PositionsOrdered ==
    \A p \in Instances : Located(p) =>
        /\ 0 <= start_idx[p]
        /\ start_idx[p] < end_search_start[p]
        /\ end_search_start[p] < closing[p]
        /\ end_idx[p] = closing[p] + 2
        /\ end_idx[p] <= Len(src[p])
        /\ start_idx[p] + Len(old_start) <= end_search_start[p]
        /\ end_search_start[p] + Len(old_end_marker) <= closing[p]
        /\ LET region == Slice(src[p], start_idx[p], end_idx[p])
           IN  /\ Len(region) = end_idx[p] - start_idx[p]
               /\ Len(region) >= Len(old_start) + Len(old_end_marker) + 2
               /\ Slice(region, 0, Len(old_start)) = old_start
               /\ Occurs(region, old_end_marker, end_search_start[p] - start_idx[p])
               /\ Slice(region, Len(region) - 2, Len(region)) = closing_delim

\* C9 witness: a located region, the markers directly adjacent to each other.
C9_Witness ==
    /\ pc[1] = "done"
    /\ end_search_start[1] = start_idx[1] + Len(old_start)
    /\ closing[1] = end_search_start[1] + Len(old_end_marker)

\* C1: a successful run leaves the file equal to prefix + new_section + suffix,
\* prefix being the text read before start_idx and suffix the text read after
\* end_idx: the characters outside the region are kept, in order.
C1_SuccessfulRunSplices ==
    pc[1] = "done" =>
        LET prefix == Slice(src[1], 0, start_idx[1])
            suffix == Slice(src[1], end_idx[1], Len(src[1]))
        IN  /\ disk = prefix \o new_section \o suffix
            /\ Len(disk) = Len(prefix) + Len(new_section) + Len(suffix)
            /\ Slice(disk, 0, Len(prefix)) = prefix
            /\ Slice(disk, Len(prefix), Len(prefix) + Len(new_section)) = new_section
            /\ Slice(disk, Len(disk) - Len(suffix), Len(disk)) = suffix
            /\ src[1] = prefix \o Slice(src[1], start_idx[1], end_idx[1]) \o suffix

\* C1 witness: a finished run on a text with characters before and after the
\* region.
C1_Witness ==
    /\ pc[1] = "done"
    /\ start_idx[1] > 0
    /\ end_idx[1] < Len(src[1])

\* C5: what is printed between the two banners is the text read from start_idx
\* to end_idx, the very characters the splice removes: putting it back in the
\* place of new_section restores the text read.
C5_PrintedOldSection ==
    \A p \in Instances :
        /\ pc[p] \in AfterPrint \cup {"write_error"} =>
            /\ Len(out[p]) >= 3
            /\ out[p][1] = BannerOld
            /\ out[p][2] = Slice(src[p], start_idx[p], end_idx[p])
            /\ out[p][3] = BannerEnd
        /\ pc[p] \in AfterSplice \cup {"write_error"} =>
            src[p] = Slice(content[p], 0, start_idx[p]) \o out[p][2]
                     \o Slice(content[p], start_idx[p] + Len(new_section),
                              Len(content[p]))

\* C5 witness: the old section was printed and the splice made.
C5_Witness ==
    /\ pc[1] = "open_w"
    /\ Len(out[1]) = 3
    /\ Len(out[1][2]) > Len(old_start) + Len(old_end_marker) + 2

\* The three literals occur in s in the order the script assumes.
InOrder(s) ==
    \E a \in 0 .. Len(s) :
        /\ Occurs(s, old_start, a)
        /\ \E b \in a .. Len(s) :
              /\ Occurs(s, old_end_marker, b)
              /\ \E c \in b .. Len(s) : Occurs(s, closing_delim, c)

\* The lines of the three lookups.
Lookups == {"find_start", "find_end", "find_closing"}

\* C2: a run gets past the lookups only on a text that has the start marker,
\* an end marker at or after it and a closing delimiter at or after that (the
\* positions found are such occurrences); on any other text the run stays in
\* the lookups, the file still holding the text read, nothing printed, nothing
\* spliced, and it ends in the marker error.
C2_MarkerErrorBeforeWrite ==
    /\ [](/\ Located(1) =>
                /\ Occurs(src[1], old_start, start_idx[1])
                /\ start_idx[1] <= end_search_start[1]
                /\ Occurs(src[1], old_end_marker, end_search_start[1])
                /\ end_search_start[1] <= closing[1]
                /\ Occurs(src[1], closing_delim, closing[1])
          /\ pc[1] \in Lookups \cup {"marker_error"} =>
                /\ disk = src[1]
                /\ content[1] = src[1]
                /\ out[1] = <<>>)
    /\ [][pc[1] = "marker_error" => UNCHANGED vars]_vars
    /\ (pc[1] = "find_start" /\ ~InOrder(src[1])) ~> (pc[1] = "marker_error")

\* C2 witness: the marker error on a text that holds all three literals, but
\* not in the order start marker, end marker, closing delimiter.
C2_Witness ==
    /\ pc[1] = "marker_error"
    /\ \E i \in 0 .. Len(src[1]) : Occurs(src[1], old_start, i)
    /\ \E i \in 0 .. Len(src[1]) : Occurs(src[1], old_end_marker, i)
    /\ \E i \in 0 .. Len(src[1]) : Occurs(src[1], closing_delim, i)
    /\ ~InOrder(src[1])
    /\ disk = file0

\* Positions of the start marker, of the end marker after it and of the closing
\* delimiter after that inside new_section.
NsStart == index(new_section, old_start, 0)

NsEnd == index(new_section, old_end_marker, NsStart)

NsClosing == index(new_section, closing_delim, NsEnd)

\* What new_section holds before its start marker and after the closing
\* delimiter of its end-marker entry.
NsLead == Slice(new_section, 0, NsStart)

NsTail == Slice(new_section, NsClosing + 2, Len(new_section))

\* C3 as stated: after a successful run, a second run that ends without an I/O
\* error ends in the marker error or leaves the file as the first run left it.
C3_SecondRunFailsOrNoOp ==
    (prev.pc = "done" /\ pc[1] \in {"done", "marker_error"}) =>
        (pc[1] = "marker_error" \/ disk = prev.disk)

\* C3 amended: after a successful run, a second run never raises the marker
\* error: its lookups succeed, and when it completes the file is changed (it is
\* longer than the first run left it).
C3_SecondRunSucceeds ==
    prev.pc = "done" =>
        /\ pc[1] # "marker_error"
        /\ pc[1] \in Lookups => src[1] = prev.disk
        /\ pc[1] = "done" => (disk # prev.disk /\ Len(disk) > Len(prev.disk))

\* C3 witness: a run completed right after a successful run.
C3_Witness == prev.pc = "done" /\ pc[1] = "done"

\* C10: new_section holds the start marker, later the end marker, then the
\* closing delimiter; a run after a successful run locates the region from the
\* start marker inside the block inserted before to the delimiter closing its
\* end-marker entry; and when it completes, the file is what the run before
\* left with one more copy of the leading Cloud & Infrastructure entry before
\* the block and one more copy of the entries after the end-marker entry after
\* it: the same positive growth every time.
C10_RerunGrowsFile ==
    /\ NsStart > 0
    /\ NsEnd > NsStart
    /\ NsClosing > NsEnd
    /\ NsLead = "  // Cloud & Infrastructure Engineering\n  {\n"
                \o "    name: \"Cloudflare Blog\",\n"
                \o "    url: \"https://blog.cloudflare.com/rss/\",\n  },\n"
    /\ Len(NsLead) + Len(NsTail) > 0
    /\ (prev.pc = "done" /\ Located(1)) =>
          /\ start_idx[1] = prev.start_idx + NsStart
          /\ end_search_start[1] = prev.start_idx + NsEnd
          /\ closing[1] = prev.start_idx + NsClosing
          /\ end_idx[1] = prev.start_idx + NsClosing + 2
    /\ (prev.pc = "done" /\ pc[1] = "done") =>
          /\ Len(disk) = Len(prev.disk) + Len(NsLead) + Len(NsTail)
          /\ disk = Slice(prev.src, 0, prev.start_idx) \o NsLead \o new_section
                    \o NsTail \o Slice(prev.src, prev.end_idx, Len(prev.src))
          /\ prev.disk = Slice(prev.src, 0, prev.start_idx) \o new_section
                         \o Slice(prev.src, prev.end_idx, Len(prev.src))

\* C10 witness: the third successful run in a row has completed, the second
\* and the third having both lengthened the file by the same amount.
C10_Witness ==
    /\ runs = 2
    /\ prev.pc = "done"
    /\ pc[1] = "done"
    /\ Len(prev.disk) = Len(prev.src) + Len(NsLead) + Len(NsTail)
    /\ Len(disk) = Len(prev.disk) + Len(NsLead) + Len(NsTail)

\* What this run has printed is the old section between its banners.
OldPrinted(p) == out[p] = <<BannerOld, old_section[p], BannerEnd>>

\* C6: the file is modified only after the old section was printed; the
\* completion message is printed only once the whole new text is in the file;
\* a run that failed in the write step has printed the old section and no
\* completion message, and prints nothing afterwards.
C6_EventOrder ==
    /\ [](/\ pc[1] \in {"write", "report", "write_error"} => OldPrinted(1)
          /\ pc[1] = "done" =>
                /\ out[1] = <<BannerOld, old_section[1], BannerEnd, DoneMsg>>
                /\ disk = content[1]
          /\ pc[1] # "done" => \A i \in 1 .. Len(out[1]) : out[1][i] # DoneMsg)
    /\ [][disk' # disk => (OldPrinted(1) /\ out' = out)]_vars
    /\ [][(out'[1] # out[1] /\ out'[1] # <<>> /\ out'[1][Len(out'[1])] = DoneMsg) =>
             (/\ pc[1] = "report"
              /\ written[1] = Len(content[1])
              /\ disk = content[1]
              /\ disk' = disk)]_vars
    /\ [][pc[1] = "write_error" => UNCHANGED vars]_vars

\* C6 witness: the completion message was printed after the old section.
C6_Witness ==
    /\ pc[1] = "done"
    /\ Len(out[1]) = 4
    /\ out[1][4] = DoneMsg
    /\ disk # src[1]

\* C7: during a run the file holds the text read, or a prefix (possibly empty)
\* of the new text, or the whole new text; a write interrupted after the file
\* was opened leaves the run in the error state with the file empty or partly
\* written, the text read is not put back.
C7_TruncateThenWrite ==
    /\ [](/\ pc[1] \in Lookups \cup {"marker_error", "print_old", "splice", "open_w"}
                => disk = src[1]
          /\ pc[1] = "write" =>
                /\ written[1] <= Len(content[1])
                /\ disk = Slice(content[1], 0, written[1])
          /\ pc[1] \in AfterSplice \cup {"write_error"} =>
                content[1] = Spliced(src[1], start_idx[1], end_idx[1])
          /\ pc[1] \in {"report", "done"} => disk = content[1]
          /\ pc[1] = "write_error" =>
                \/ disk = src[1]
                \/ /\ Len(disk) < Len(content[1])
                   /\ disk = Slice(content[1], 0, Len(disk))
                   /\ disk # src[1])
    /\ [][(pc[1] = "write" /\ pc'[1] = "write_error") =>
             (/\ disk' = disk
              /\ Len(disk) < Len(content[1])
              /\ disk = Slice(content[1], 0, Len(disk))
              /\ disk # src[1])]_vars
    /\ [][(pc[1] = "open_w" /\ pc'[1] = "write") => disk' = ""]_vars
    /\ [][pc[1] = "write_error" => UNCHANGED vars]_vars

\* C7 witness: the write was interrupted with part of the new text on disk.
C7_Witness ==
    /\ pc[1] = "write_error"
    /\ Len(disk) > 0
    /\ Len(disk) < Len(content[1])
    /\ disk # src[1]

\* What one instance running alone makes of text t (t has the three literals
\* in order).
RunResult(t) ==
    LET a == index(t, old_start, 0)
        b == index(t, old_end_marker, a)
        c == index(t, closing_delim, b)
    IN  Spliced(t, a, EndIdx(c))

Other(p) == CHOOSE q \in Instances : q # p

\* C8: with two instances on one file, what an instance reads is the original
\* file or what the other instance has put there so far: a prefix, possibly
\* empty, possibly whole, of the other's new text. When both instances read
\* the original file and both complete, the file is the result of a single
\* run. (That the other outcomes happen is what the witnesses below reach.)
C8_UnprotectedRace ==
    \A p \in Instances :
        /\ pc[p] \notin {"read", "read_error"} =>
              \/ src[p] = file0
              \/ /\ src[Other(p)] = file0
                 /\ pc[Other(p)] \in AfterSplice \cup {"write_error"}
                 /\ Len(src[p]) <= Len(content[Other(p)])
                 /\ src[p] = Slice(content[Other(p)], 0, Len(src[p]))
        /\ (pc[1] = "done" /\ pc[2] = "done" /\ src[1] = file0 /\ src[2] = file0) =>
              /\ content[1] = content[2]
              /\ disk = content[p]
              /\ disk = RunResult(file0)

\* C8 witness: both instances completed and the file is not the result of a
\* single run on the original file.
C8_Witness ==
    /\ pc[1] = "done"
    /\ pc[2] = "done"
    /\ disk # RunResult(file0)

\* Further outcomes of the race, each reachable: the benign one ...
C8_Benign ==
    /\ pc[1] = "done"
    /\ pc[2] = "done"
    /\ src[1] = file0
    /\ src[2] = file0
    /\ written[1] > 0
    /\ disk = RunResult(file0)

\* ... an instance failing on a file the other had truncated or partly written
\* ...
C8_MarkerErrorByRace ==
    /\ pc[1] = "done"
    /\ pc[2] = "marker_error"
    /\ InOrder(file0)
    /\ src[2] # file0
    /\ Len(src[2]) > 0

\* ... and an instance that read the file the other had finished.
C8_ReadAfterOther ==
    /\ pc[1] = "done"
    /\ pc[2] = "done"
    /\ src[2] = content[1]
    /\ src[2] # file0

====
